---- MODULE Spec2Model ----
(***************************************************************************)
(* A model of lib/ocrodjvu.py: the command line (OptionParser), the        *)
(* identifier validation, the output strategies (Saver classes) and the    *)
(* pipeline run (main, Context.process, Context.close).                    *)
(*                                                                         *)
(* Strings are sequences of one-character strings, so that split, the      *)
(* `in` test, int() and the regular expression are computed on characters. *)
(***************************************************************************)
EXTENDS Integers, Sequences, FiniteSets, TLC

VARIABLES
    argv,       \* the command line: saver flags, -p value, boolean flags
    doc,        \* the document on disk: the file id of each page, in order
    pc,         \* position of the single thread of control in main()
    options,    \* the values parse_args returned (saver, pages, flags)
    exit_code,  \* process exit status, -1 while running
    failure,    \* the exception in flight ("none" when there is none)
    tmp,        \* the temporary workspace: exists, reported
    sed,        \* the edit script file: open, exists, written, flushed
    k,          \* index of the page being processed in `pages`
    pages,      \* the resolved page selection: 0-based page numbers
    outcomes,   \* what process_page did for each entry processed so far
    fs,         \* files outside the workspace: path -> content
    log,        \* the save calls and external tool invocations, in order
    engine,     \* the engine adapter constructed for the run
    proc,       \* process_page: its stage, and the OCR processes not waited for
    handles,    \* the files process_page and the saver hold open
    touched,    \* the paths created, written or deleted so far
    events,     \* what was printed or listed, and the exceptions caught
    arg,        \* argument of the function under test (validate_file_id)
    ret         \* its result

vars == <<argv, doc, pc, options, exit_code, failure, tmp, sed, k, pages,
          outcomes, fs, log, engine, proc, handles, touched, events, arg, ret>>

inputVars == <<argv, doc, arg, ret>>

procVars == <<proc, handles, touched, events>>

----------------------------------------------------------------------------
(* Bounds *)

MaxTokens == 2      \* tokens in a generated -p value
MaxIdLen == 3       \* characters in a generated file id
MaxFlags == 3       \* output-strategy flags on a generated command line
MaxDocPages == 3    \* pages of the document of a run

----------------------------------------------------------------------------
(* Strings *)

Digits == <<"0", "1", "2", "3", "4", "5", "6", "7", "8", "9">>

IsDigit(c) == \E d \in 1..10 : Digits[d] = c

DigitVal(c) == (CHOOSE d \in 1..10 : Digits[d] = c) - 1

Contains(s, c) == \E i \in 1..Len(s) : s[i] = c

\* index of the first occurrence of c in s, 0 when there is none
Find(s, c) ==
    IF Contains(s, c)
    THEN CHOOSE i \in 1..Len(s) : s[i] = c /\ \A j \in 1..(i - 1) : s[j] # c
    ELSE 0

\* str.split(c): the pieces between the occurrences of c, empty ones kept
RECURSIVE Split(_, _)
Split(s, c) ==
    IF ~Contains(s, c)
    THEN <<s>>
    ELSE <<SubSeq(s, 1, Find(s, c) - 1)>>
             \o Split(SubSeq(s, Find(s, c) + 1, Len(s)), c)

\* str.split(c, 1): cut at the first occurrence of c only
SplitOnce(s, c) ==
    IF ~Contains(s, c)
    THEN <<s>>
    ELSE <<SubSeq(s, 1, Find(s, c) - 1), SubSeq(s, Find(s, c) + 1, Len(s))>>

RECURSIVE DigitsVal(_)
DigitsVal(s) ==
    IF Len(s) = 0 THEN 0
    ELSE 10 * DigitsVal(SubSeq(s, 1, Len(s) - 1)) + DigitVal(s[Len(s)])

AllDigits(s) == Len(s) > 0 /\ \A i \in 1..Len(s) : IsDigit(s[i])

\* str.strip() for the blank
RECURSIVE Strip(_)
Strip(s) ==
    IF Len(s) > 0 /\ s[1] = " " THEN Strip(Tail(s))
    ELSE IF Len(s) > 0 /\ s[Len(s)] = " " THEN Strip(SubSeq(s, 1, Len(s) - 1))
    ELSE s

\* int(s): blanks around, an optional sign and at least one digit;
\* ValueError (ok = FALSE) otherwise
PyInt(s) ==
    LET t == Strip(s) IN
    IF AllDigits(t) THEN [ok |-> TRUE, val |-> DigitsVal(t)]
    ELSE IF Len(t) > 1 /\ t[1] = "-" /\ AllDigits(Tail(t))
         THEN [ok |-> TRUE, val |-> 0 - DigitsVal(Tail(t))]
    ELSE IF Len(t) > 1 /\ t[1] = "+" /\ AllDigits(Tail(t))
         THEN [ok |-> TRUE, val |-> DigitsVal(Tail(t))]
    ELSE [ok |-> FALSE, val |-> 0]

\* xrange(x, y + 1) as a list
RECURSIVE XRange(_, _)
XRange(x, y) == IF x > y THEN <<>> ELSE <<x>> \o XRange(x + 1, y)

\* '%d' % n for n >= 0
RECURSIVE Str(_)
Str(n) == IF n < 10 THEN <<Digits[n + 1]>>
          ELSE Str(n \div 10) \o <<Digits[(n % 10) + 1]>>

----------------------------------------------------------------------------
(* The command line: OptionParser *)

SaverKinds == {"bundled", "indirect", "script", "in_place", "dry_run"}

\* the saver classes whose __init__ takes a save_path (n_args = 1)
TakesPath(kind) == kind \in {"bundled", "indirect", "script"}

\* no saver says it works in place
InPlaceFlag_never(kind) == FALSE

\* saver.in_place: False in Saver, True in InPlaceSaver only
InPlaceFlag(kind) == kind = "in_place"

\* os.path.abspath for the paths of the model
AbsPath(p) ==
    CASE p = "doc.djvu" -> "/cwd/doc.djvu"
      [] p = "out.djvu" -> "/cwd/out.djvu"
      [] OTHER -> p

\* parser.values.saver: no such attribute yet, None, or a saver instance
SaverUnset == [kind |-> "unset", save_path |-> ""]
SaverNone == [kind |-> "None", save_path |-> ""]

\* saver_type(*value): the constructors keep the absolute save path
NewSaver(kind, value) ==
    [kind |-> kind, save_path |-> IF TakesPath(kind) THEN AbsPath(value) ELSE ""]

\* set_output with None taken for "no saver yet"
set_output_none_is_unset(saver, flag) ==
    IF saver \in {SaverUnset, SaverNone}
    THEN NewSaver(flag.kind, flag.value)
    ELSE SaverNone

\* set_output, the callback of the five output flags
set_output(saver, flag) ==
    IF saver = SaverUnset
    THEN NewSaver(flag.kind, flag.value)
    ELSE SaverNone

\* optparse runs the callbacks in command-line order; set_output is the
\* callback of the output flags only
RECURSIVE RunCallbacks(_, _)
RunCallbacks(saver, flags) ==
    IF Len(flags) = 0 THEN saver
    ELSE IF Head(flags).kind \in SaverKinds
         THEN RunCallbacks(set_output(saver, Head(flags)), Tail(flags))
         ELSE RunCallbacks(saver, Tail(flags))

NoPages == [none |-> TRUE, list |-> <<>>]
SomePages(l) == [none |-> FALSE, list |-> l]

\* the body of the loop over options.pages.split(','): the pages one token
\* adds, or ValueError
TokenPages(s, range) ==
    IF Contains(range, "-")
    THEN LET parts == SplitOnce(s, "-")
             x == PyInt(parts[1])
             y == PyInt(parts[2])
         IN  IF x.ok /\ y.ok
             THEN [ok |-> TRUE, list |-> XRange(x.val, y.val)]
             ELSE [ok |-> FALSE, list |-> <<>>]
    ELSE LET v == PyInt(range)
         IN  IF v.ok THEN [ok |-> TRUE, list |-> <<v.val>>]
             ELSE [ok |-> FALSE, list |-> <<>>]

RECURSIVE PagesLoop(_, _)
PagesLoop(s, ranges) ==
    IF Len(ranges) = 0 THEN [ok |-> TRUE, list |-> <<>>]
    ELSE LET first == TokenPages(s, Head(ranges))
             rest == PagesLoop(s, Tail(ranges))
         IN  IF first.ok /\ rest.ok
             THEN [ok |-> TRUE, list |-> first.list \o rest.list]
             ELSE [ok |-> FALSE, list |-> <<>>]

\* the -p value turned into options.pages
ParsePages(p) ==
    IF p.none THEN [ok |-> TRUE, pages |-> NoPages]
    ELSE LET r == PagesLoop(p.s, Split(p.s, ","))
         IN  [ok |-> r.ok, pages |-> SomePages(r.list)]

NoOptions ==
    [saver |-> SaverUnset, pages |-> NoPages, ocr_only |-> FALSE,
     clear_text |-> FALSE, debug |-> FALSE, path |-> ""]

\* OptionParser.parse_args: the options and the path, or error() (exit 2)
parse_args(a) ==
    LET saver == RunCallbacks(SaverUnset, a.flags)
        pp == ParsePages(a.pages)
    IN  IF Len(a.args) # 1 THEN [ok |-> FALSE, options |-> NoOptions]
        ELSE IF ~pp.ok THEN [ok |-> FALSE, options |-> NoOptions]
        ELSE IF saver \in {SaverUnset, SaverNone}
             THEN [ok |-> FALSE, options |-> NoOptions]
        ELSE [ok |-> TRUE,
              options |-> [saver |-> saver, pages |-> pp.pages,
                           ocr_only |-> a.ocr_only,
                           clear_text |-> a.clear_text,
                           debug |-> a.debug, path |-> a.args[1]]]

\* the exit status of optparse's error()
ErrorExit == 2

----------------------------------------------------------------------------
(* validate_file_id *)

\* the whitespace of \s without re.UNICODE or re.LOCALE: [ \t\n\r\f\v]
\* (the vertical tab is written "<VT>")
PyWhitespace == {" ", "\t", "\n", "\r", "\f", "<VT>"}

\* the class [/\\\s]: slash, backslash and whitespace
IdClass == {"/", "\\"} \cup PyWhitespace

\* match() in place of search(): only the first character is looked at
Search_match(id) == Len(id) > 0 /\ id[1] \in IdClass

\* re.compile(r'[/\\\s]').search(id)
Search(id) == \E i \in 1..Len(id) : id[i] \in IdClass

\* the id handed on whatever it holds
validate_file_id_lenient(id) == [raised |-> FALSE, id |-> id]

validate_file_id(id) ==
    IF Search(id) THEN [raised |-> TRUE, id |-> <<>>]
    ELSE [raised |-> FALSE, id |-> id]

----------------------------------------------------------------------------
(* Inputs *)

\* all strings of at most n characters of the set chars
Strings(chars, n) == UNION {[1..m -> chars] : m \in 0..n}

\* page numbers of the generated -p values
PageNos == {1, 2, 4, 6, 12}

\* a token of a -p value: a single page number or start-end
Tokens == [range : {FALSE}, lo : PageNos, hi : {0}]
              \cup [range : {TRUE}, lo : PageNos, hi : PageNos]

FormatToken(t) == IF t.range THEN Str(t.lo) \o <<"-">> \o Str(t.hi) ELSE Str(t.lo)

RECURSIVE FormatSpec(_)
FormatSpec(ts) ==
    IF Len(ts) = 1 THEN FormatToken(ts[1])
    ELSE FormatToken(Head(ts)) \o <<",">> \o FormatSpec(Tail(ts))

\* the examples of the specification: 2,4-6,4 and 1-2,4-6
SpecExamples ==
    {<<"2", ",", "4", "-", "6", ",", "4">>, <<"1", "-", "2", ",", "4", "-", "6">>}

\* the -p values made of 1..MaxTokens valid tokens, and the examples
GeneratedSpecs ==
    {FormatSpec(ts) : ts \in UNION {[1..n -> Tokens] : n \in 1..MaxTokens}}
        \cup SpecExamples

SavePaths == {"out.djvu", "doc.djvu"}

\* an output flag as optparse hands it to set_output
Flags ==
    [kind : {"bundled", "indirect", "script"}, value : SavePaths]
        \cup [kind : {"in_place", "dry_run"}, value : {""}]

FlagLists(n) == UNION {[1..m -> Flags] : m \in 0..n}

\* characters of the generated file ids
IdChars == {"p", "0", "1"} \cup IdClass

IdExamples ==
    {<<"p", "0", "0", "0", "1">>, <<"p", "/", "0", "0", "0", "1">>,
     <<"p", " ", "0", "0", "0", "1">>, <<"p", "\\", "0", "0", "0", "1">>}

IdInputs == Strings(IdChars, MaxIdLen) \cup IdExamples

NoRet == [raised |-> FALSE, id |-> <<"?">>]

----------------------------------------------------------------------------
(* State outside a run *)

NoSed == [open |-> FALSE, exists |-> FALSE, written |-> <<>>, flushed |-> 0]
NoTmp == [exists |-> FALSE, reported |-> FALSE]
NoEngine == [script_name |-> "None", has_charboxes |-> FALSE, found |-> FALSE]
NoProc == [stage |-> "idle", unwaited |-> 0]

RunIdle ==
    /\ doc = <<>>
    /\ pc = "parse_args"
    /\ options = NoOptions
    /\ exit_code = -1
    /\ failure = "none"
    /\ tmp = NoTmp
    /\ sed = NoSed
    /\ k = 0
    /\ pages = <<>>
    /\ outcomes = <<>>
    /\ fs = <<>>
    /\ log = <<>>
    /\ engine = NoEngine
    /\ proc = NoProc
    /\ handles = {}
    /\ touched = {}
    /\ events = {}

----------------------------------------------------------------------------
(* The engine adapter *)

Probes == {"absent", "usage", "other"}

\* Ocropus.__init__: `found` is computed and not used, and the loop leaves
\* at its first turn, so every probe that starts gives 'recognize'
OcropusInit(probe) ==
    IF probe = "absent"
    THEN [raised |-> TRUE, engine |-> NoEngine]
    ELSE [raised |-> FALSE,
          engine |-> [script_name |-> "recognize", has_charboxes |-> TRUE,
                      found |-> (probe = "usage")]]

\* Ocropus.list_languages: tesseract.get_languages() yields the languages
\* or raises UnknownLanguageList
LanguageLists == {"known", "unknown"}

----------------------------------------------------------------------------
(* The callbacks of --engine, --list-engines and --list-languages *)

EngineNames == {"ocropus"}

\* what a callback does to the program: nothing, error() (exit 2),
\* sys.exit(0), sys.exit(1), or an exception nothing catches
NoQuery == [out |-> "none", failure |-> "none", events |-> {}]

\* set_engine taking any name
set_engine_any(name) == NoQuery

\* set_engine: a name that is not an engine's is parser.error
set_engine(name) ==
    IF name \in EngineNames THEN NoQuery
    ELSE [out |-> "error", failure |-> "none", events |-> {"stderr: usage"}]

\* list_engines: the engines that can be constructed, then sys.exit(0)
list_engines(probe) ==
    [out |-> "exit0", failure |-> "none",
     events |-> IF OcropusInit(probe).raised THEN {"listed: engines"}
                ELSE {"listed: engines", "stdout: ocropus"}]

\* list_languages: the handler of EngineNotFound binds ex and prints it;
\* the handler of UnknownLanguageList prints ex without binding it, which
\* is an UnboundLocalError
list_languages(probe, langs) ==
    IF OcropusInit(probe).raised
    THEN [out |-> "exit1", failure |-> "SystemExit",
          events |-> {"caught: EngineNotFound", "stderr: EngineNotFound"}]
    ELSE IF langs = "unknown"
    THEN [out |-> "crash", failure |-> "UnboundLocalError",
          events |-> {"caught: UnknownLanguageList"}]
    ELSE [out |-> "exit0", failure |-> "none", events |-> {"listed: languages"}]

\* optparse runs the callbacks in command-line order; the first that leaves
\* the program ends the parsing
RECURSIVE OptParse(_, _, _)
OptParse(flags, probe, langs) ==
    IF Len(flags) = 0 THEN NoQuery
    ELSE LET f == Head(flags)
             r == IF f.kind = "engine" THEN set_engine(f.value)
                  ELSE IF f.kind = "list_engines" THEN list_engines(probe)
                  ELSE IF f.kind = "list_languages"
                       THEN list_languages(probe, langs)
                  ELSE NoQuery
         IN  IF r.out # "none" THEN r
             ELSE OptParse(Tail(flags), probe, langs)

\* the exit status: error() gives 2, an uncaught exception 1
ExitStatus(out) ==
    IF out = "error" THEN ErrorExit
    ELSE IF out = "exit0" THEN 0
    ELSE 1

----------------------------------------------------------------------------
(* main: oparser.parse_args() *)

\* optparse and its callbacks first, then the checks of parse_args
ParseArgs ==
    /\ pc = "parse_args"
    /\ \E probe \in Probes, langs \in LanguageLists :
          LET q == OptParse(argv.flags, probe, langs)
              r == parse_args(argv)
          IN  IF q.out # "none"
              THEN /\ options' = options
                   /\ pc' = "exited"
                   /\ exit_code' = ExitStatus(q.out)
                   /\ failure' = q.failure
                   /\ events' = events \cup q.events
              ELSE IF r.ok
              THEN /\ options' = r.options
                   /\ pc' = "init"
                   /\ exit_code' = exit_code
                   /\ failure' = failure
                   /\ events' = events
              ELSE /\ options' = options
                   /\ pc' = "exited"
                   /\ exit_code' = ErrorExit
                   /\ failure' = failure
                   /\ events' = events \cup {"stderr: usage"}
    /\ UNCHANGED <<inputVars, proc, handles, touched, tmp, sed, k, pages,
                   outcomes, fs, log, engine>>

(* Command lines with a generated -p value and one output flag *)
InitPages ==
    /\ RunIdle
    /\ arg = <<>>
    /\ ret = NoRet
    /\ \E s \in GeneratedSpecs :
           argv = [flags |-> <<[kind |-> "dry_run", value |-> ""]>>,
                   pages |-> [none |-> FALSE, s |-> s],
                   args |-> <<"doc.djvu">>, ocr_only |-> FALSE,
                   clear_text |-> FALSE, debug |-> FALSE]

SpecPages == InitPages /\ [][ParseArgs]_vars

(* Command lines with any list of output flags and no -p *)
InitFlags ==
    /\ RunIdle
    /\ arg = <<>>
    /\ ret = NoRet
    /\ \E fl \in FlagLists(MaxFlags) :
           argv = [flags |-> fl,
                   pages |-> [none |-> TRUE, s |-> <<>>],
                   args |-> <<"doc.djvu">>, ocr_only |-> FALSE,
                   clear_text |-> FALSE, debug |-> FALSE]

SpecFlags == InitFlags /\ [][ParseArgs]_vars

----------------------------------------------------------------------------
(* validate_file_id applied to generated identifiers *)

Validate ==
    /\ ret = NoRet
    /\ ret' = validate_file_id(arg)
    /\ UNCHANGED <<argv, doc, pc, options, exit_code, failure, tmp, sed, k,
                   pages, outcomes, fs, log, engine, procVars, arg>>

InitFileId ==
    /\ RunIdle
    /\ argv = [flags |-> <<>>, pages |-> [none |-> TRUE, s |-> <<>>],
               args |-> <<>>, ocr_only |-> FALSE, clear_text |-> FALSE,
               debug |-> FALSE]
    /\ arg \in IdInputs
    /\ ret = NoRet

SpecFileId == InitFileId /\ [][Validate]_vars

----------------------------------------------------------------------------
(* The edit script *)

Line(cmd, id, n) == [cmd |-> cmd, id |-> id, n |-> n]

RemoveTxt == Line("remove-txt", <<>>, -1)    \* 'remove-txt\n'
Select(id) == Line("select", id, -1)         \* 'select %s\n'
SetTxt == Line("set-txt", <<>>, -1)          \* 'set-txt\n'
TextOf(n) == Line("text", <<>>, n)           \* the text of page n, printed
EndBlock == Line(".", <<>>, -1)              \* '\n.\n\n'

\* nothing is written before the loop
Header_never(clear_text) == <<>>

\* what process writes before the loop over the pages
Header(clear_text) == IF clear_text THEN <<RemoveTxt>> ELSE <<>>

\* flush() that leaves the buffer where it is
FlushedLen_noflush(f) == f.flushed

\* the length of the file on disk after sed_file.flush()
FlushedLen(f) == Len(f.written)

\* what another process reads from the script file
SedOnDisk(f) == SubSeq(f.written, 1, f.flushed)

----------------------------------------------------------------------------
(* The document and the page selection *)

\* the selection sorted and without duplicates
RECURSIVE SortedSet(_)
SortedSet(S) ==
    IF S = {} THEN <<>>
    ELSE LET m == CHOOSE x \in S : \A y \in S : x <= y
         IN  <<m>> \o SortedSet(S \ {m})

Resolve_normalised(sel, n) ==
    IF sel.none THEN [ok |-> TRUE, list |-> [i \in 1..n |-> i - 1]]
    ELSE IF \A j \in 1..Len(sel.list) : sel.list[j] \in 1..n
         THEN [ok |-> TRUE,
               list |-> SortedSet({sel.list[j] - 1 : j \in 1..Len(sel.list)})]
         ELSE [ok |-> FALSE, list |-> <<>>]

\* document.pages indexed as a list is: -1 is the last page
Resolve_wraps(sel, n) ==
    IF sel.none THEN [ok |-> TRUE, list |-> [i \in 1..n |-> i - 1]]
    ELSE IF \A j \in 1..Len(sel.list) : sel.list[j] \in 0..n
         THEN [ok |-> TRUE,
               list |-> [j \in 1..Len(sel.list) |->
                            IF sel.list[j] = 0 THEN n - 1 ELSE sel.list[j] - 1]]
         ELSE [ok |-> FALSE, list |-> <<>>]

\* pages = list(document.pages), or [document.pages[i - 1] for i in pages];
\* document.pages[j] raises IndexError unless 0 <= j < len(document.pages)
Resolve(sel, n) ==
    IF sel.none THEN [ok |-> TRUE, list |-> [i \in 1..n |-> i - 1]]
    ELSE IF \A j \in 1..Len(sel.list) : sel.list[j] \in 1..n
         THEN [ok |-> TRUE, list |-> [j \in 1..Len(sel.list) |-> sel.list[j] - 1]]
         ELSE [ok |-> FALSE, list |-> <<>>]

\* page.file.id of the page with page.n = n
FileId(n) == doc[n + 1]

----------------------------------------------------------------------------
(* Files outside the workspace, and the record of calls *)

AbsPaths == {"/cwd/doc.djvu", "/cwd/out.djvu"}

FileRec(type, pgs, data) == [type |-> type, pages |-> pgs, data |-> data]

Absent == FileRec("absent", NoPages, <<>>)
Original == FileRec("original", NoPages, <<>>)

\* the files before the run: the source document, and no output yet
InitialFs == [p \in AbsPaths |-> IF p = "/cwd/doc.djvu" THEN Original ELSE Absent]

IsDocument(f) == f.type \in {"original", "bundled", "indirect"}

\* the workspace of the run (tempfile.mkdtemp) and the working directory
TmpDir == "/tmp/ocrodjvu.XXXXXX"
WorkDir == "/cwd"

\* Context._temp_file: os.path.join(self._temp_dir, name); the names are
\* 'ocrodjvu.djvused', '%06d.pbm' and '%06d.html'
TempFile(name) == [dir |-> TmpDir, name |-> name]

\* a path of the command line, as the savers open it
Outside(path) == [dir |-> WorkDir, name |-> AbsPath(path)]

Entry(op, kind, by, document, pgs, path) ==
    [op |-> op, kind |-> kind, by |-> by, document |-> document,
     pages |-> pgs, path |-> path]

\* the chained save is given the path of the source
ChainedPath_source(saver, djvu_path) == djvu_path

\* the djvu_path Bundled and Indirect hand to InPlaceSaver().save
ChainedPath(saver, djvu_path) == saver.save_path

\* every page is kept whatever --ocr-only says
PagesToSave_all(ocr_only, pgs) == NoPages

\* pages_to_save: [page.n for page in pages] under --ocr-only, else None
PagesToSave(ocr_only, pgs) == IF ocr_only THEN SomePages(pgs) ELSE NoPages

\* InPlaceSaver.save: djvused -s -f <script> <abspath(djvu_path)>, waited
\* for; it edits a document and fails on anything else
InPlaceLog(by, pgs, djvu_path) ==
    <<Entry("save", "in_place", by, FALSE, pgs, djvu_path),
      Entry("djvused", "", by, FALSE, NoPages, AbsPath(djvu_path))>>

InPlaceFs(fsys, djvu_path, script) ==
    [fsys EXCEPT ![AbsPath(djvu_path)].data = script]

----------------------------------------------------------------------------
(* Exceptions: the finally clauses of Context.process and of main *)

\* main without its try/finally
UnwindMain_none == "exited"

\* leaving process() by return or by exception, main runs context.close()
UnwindMain == "close"

\* leaving the try block of process(), sed_file.close() runs
UnwindProcess == "sed_close"

----------------------------------------------------------------------------
(* main and Context.process, statement by statement *)

\* context.init(options): tempfile.mkdtemp
ContextInit ==
    /\ pc = "init"
    /\ \E ok \in BOOLEAN :
          IF ok
          THEN /\ tmp' = [exists |-> TRUE, reported |-> FALSE]
               /\ pc' = "engine"
               /\ touched' = touched \cup {TempFile("")}
               /\ UNCHANGED <<failure, exit_code>>
          ELSE /\ tmp' = tmp
               /\ failure' = "OSError"
               /\ pc' = "exited"
               /\ exit_code' = 1
               /\ touched' = touched
    /\ UNCHANGED <<inputVars, proc, handles, events, options, sed, k, pages,
                   outcomes, fs, log, engine>>

\* self._engine = self._options.engine(); EngineNotFound ends in sys.exit(1)
MakeEngine ==
    /\ pc = "engine"
    /\ \E probe \in Probes :
          LET r == OcropusInit(probe)
          IN  IF r.raised
              THEN /\ failure' = "SystemExit"
                   /\ pc' = UnwindMain
                   /\ engine' = engine
                   /\ events' = events \cup {"caught: EngineNotFound",
                                              "stderr: EngineNotFound"}
              ELSE /\ failure' = failure
                   /\ pc' = "open_doc"
                   /\ engine' = r.engine
                   /\ events' = events
    /\ UNCHANGED <<inputVars, proc, handles, touched, options, exit_code, tmp,
                   sed, k, pages, outcomes, fs, log>>

\* new_document and decoding_job.wait(); an ErrorMessage ends in sys.exit(1)
OpenDocument ==
    /\ pc = "open_doc"
    /\ \E ok \in BOOLEAN :
          IF ok
          THEN pc' = "resolve" /\ failure' = failure
          ELSE pc' = UnwindMain /\ failure' = "SystemExit"
    /\ UNCHANGED <<inputVars, procVars, options, exit_code, tmp, sed, k, pages, outcomes,
                   fs, log, engine>>

\* the page selection resolved against the document
ResolvePages ==
    /\ pc = "resolve"
    /\ LET r == Resolve(options.pages, Len(doc))
       IN  IF r.ok
           THEN pages' = r.list /\ pc' = "sed_open" /\ failure' = failure
           ELSE pages' = pages /\ pc' = UnwindMain /\ failure' = "IndexError"
    /\ UNCHANGED <<inputVars, procVars, options, exit_code, tmp, sed, k, outcomes, fs,
                   log, engine>>

\* the loop left after its first turn
AfterPage_once(done) == IF done < 1 /\ done < Len(pages) THEN "page_begin" ELSE "flush"

AfterPage(done) == IF done < Len(pages) THEN "page_begin" ELSE "flush"

\* sed_file = self._temp_file(...), and remove-txt under --clear-text
SedOpen ==
    /\ pc = "sed_open"
    /\ sed' = [open |-> TRUE, exists |-> TRUE,
               written |-> Header(options.clear_text), flushed |-> 0]
    /\ k' = 0
    /\ pc' = AfterPage(0)
    /\ touched' = touched \cup {TempFile("ocrodjvu.djvused")}
    /\ UNCHANGED <<inputVars, proc, handles, events, options, exit_code,
                   failure, tmp, pages, outcomes, fs, log, engine>>

\* the select and set-txt lines of the next page; validate_file_id is
\* evaluated before anything is written
PageBegin ==
    /\ pc = "page_begin"
    /\ LET v == validate_file_id(FileId(pages[k + 1]))
       IN  IF v.raised
           THEN /\ failure' = "SecurityConcern"
                /\ pc' = UnwindProcess
                /\ sed' = sed
           ELSE /\ failure' = failure
                /\ pc' = "page_ocr"
                /\ sed' = [sed EXCEPT !.written = @ \o <<Select(v.id), SetTxt>>]
    /\ UNCHANGED <<inputVars, procVars, options, exit_code, tmp, k, pages, outcomes, fs,
                   log, engine>>

(* process_page, statement by statement.  proc.stage is the place in it:  *)
(* idle, rendered (the PBM written), recognizing (inside the with          *)
(* statement), extracted or raising (the body of the with statement ended  *)
(* by return or by an exception), and done, na, error or failed            *)
(* (process_page left by return, by NotAvailable, by another exception     *)
(* before the with statement, or by an exception that left the with        *)
(* statement).                                                             *)

runVars == <<pc, options, exit_code, failure, tmp, sed, k, pages, outcomes,
             fs, log, engine>>

\* page.decode, page_job.size, pfile = self._temp_file('%06d.pbm'), the
\* header, page_job.render and pfile.flush(); NotAvailable comes from
\* page_job.size, before the file is made, or from render, after; the
\* finally clause closes the file when an exception leaves
Render ==
    /\ pc = "page_ocr"
    /\ proc.stage = "idle"
    /\ \E r \in {"ok", "na", "error"}, made \in BOOLEAN :
          /\ proc' = [proc EXCEPT !.stage = IF r = "ok" THEN "rendered" ELSE r]
          /\ handles' = IF r = "ok" THEN handles \cup {"pbm"} ELSE handles
          /\ touched' = IF r = "ok" \/ made
                        THEN touched \cup {TempFile("NNNNNN.pbm")}
                        ELSE touched
    /\ UNCHANGED <<inputVars, events, runVars>>

\* self._engine.recognize(pfile) up to its yield: ipc.Subprocess starts
\* ocroscript, or raises OSError
Recognize ==
    /\ pc = "page_ocr"
    /\ proc.stage = "rendered"
    /\ \E ok \in BOOLEAN :
          IF ok
          THEN /\ proc' = [stage |-> "recognizing",
                           unwaited |-> proc.unwaited + 1]
               /\ handles' = handles
          ELSE /\ proc' = [proc EXCEPT !.stage = "error"]
               /\ handles' = handles \ {"pbm"}
    /\ UNCHANGED <<inputVars, touched, events, runVars>>

\* the body of the with statement: in debug mode the output is copied to
\* '%06d.html'; hocr.extract_text returns the text or raises
ExtractText ==
    /\ pc = "page_ocr"
    /\ proc.stage = "recognizing"
    /\ \E ok \in BOOLEAN :
          proc' = [proc EXCEPT !.stage = IF ok THEN "extracted" ELSE "raising"]
    /\ handles' = handles \cup {"html"}
    /\ touched' = IF options.debug
                  THEN touched \cup {TempFile("NNNNNN.html")}
                  ELSE touched
    /\ UNCHANGED <<inputVars, events, runVars>>

\* ocropus.wait() only when the body returned
Reaps_on_return(stage) == stage = "extracted"

\* the finally clause of Ocropus.recognize: ocropus.wait(), however the
\* body of the with statement ended
Reaps(stage) == stage \in {"extracted", "raising"}

\* the way out of the with statement: html_file.close(), the finally
\* clause of recognize (wait raises CalledProcessError when ocroscript
\* failed), and pfile.close()
LeaveRecognize ==
    /\ pc = "page_ocr"
    /\ proc.stage \in {"extracted", "raising"}
    /\ \E ok \in BOOLEAN :
          proc' = [stage |-> IF ok /\ proc.stage = "extracted"
                             THEN "done" ELSE "failed",
                   unwaited |-> IF Reaps(proc.stage)
                                THEN proc.unwaited - 1 ELSE proc.unwaited]
    /\ handles' = handles \ {"pbm", "html"}
    /\ UNCHANGED <<inputVars, touched, events, runVars>>

\* process_page returned the text: it is printed, and the block closed
PageOk ==
    /\ pc = "page_ocr"
    /\ proc.stage = "done"
    /\ proc' = [proc EXCEPT !.stage = "idle"]
    /\ sed' = [sed EXCEPT !.written = @ \o <<TextOf(pages[k + 1]), EndBlock>>]
    /\ outcomes' = Append(outcomes, "ok")
    /\ k' = k + 1
    /\ pc' = AfterPage(k + 1)
    /\ UNCHANGED <<inputVars, handles, touched, events, options, exit_code,
                   failure, tmp, pages, fs, log, engine>>

\* NotAvailable is fatal like any other exception
PageNotAvailable_fatal ==
    /\ pc = "page_ocr"
    /\ proc.stage = "na"
    /\ proc' = [proc EXCEPT !.stage = "idle"]
    /\ outcomes' = Append(outcomes, "na")
    /\ failure' = "NotAvailable"
    /\ pc' = UnwindProcess
    /\ UNCHANGED <<inputVars, handles, touched, events, options, exit_code,
                   tmp, sed, k, pages, fs, log, engine>>

\* process_page raised djvu.decode.NotAvailable: a warning, and the block
\* is closed with nothing in it
PageNotAvailable ==
    /\ pc = "page_ocr"
    /\ proc.stage = "na"
    /\ proc' = [proc EXCEPT !.stage = "idle"]
    /\ sed' = [sed EXCEPT !.written = @ \o <<EndBlock>>]
    /\ outcomes' = Append(outcomes, "na")
    /\ k' = k + 1
    /\ pc' = AfterPage(k + 1)
    /\ UNCHANGED <<inputVars, handles, touched, events, options, exit_code,
                   failure, tmp, pages, fs, log, engine>>

\* process_page raised anything else
PageFails ==
    /\ pc = "page_ocr"
    /\ proc.stage \in {"error", "failed"}
    /\ proc' = [proc EXCEPT !.stage = "idle"]
    /\ outcomes' = Append(outcomes, "error")
    /\ failure' = "Error"
    /\ pc' = UnwindProcess
    /\ UNCHANGED <<inputVars, handles, touched, events, options, exit_code,
                   tmp, sed, k, pages, fs, log, engine>>

\* sed_file.flush()
Flush ==
    /\ pc = "flush"
    /\ \E ok \in BOOLEAN :
          IF ok
          THEN /\ sed' = [sed EXCEPT !.flushed = FlushedLen(sed)]
               /\ pc' = "save"
               /\ failure' = failure
          ELSE /\ sed' = sed
               /\ pc' = UnwindProcess
               /\ failure' = "IOError"
    /\ UNCHANGED <<inputVars, procVars, options, exit_code, tmp, k, pages, outcomes, fs,
                   log, engine>>

\* the arguments of self._options.saver.save(document, pages_to_save, path,
\* sed_file): the document is None for an in_place saver
SaveCall ==
    Entry("save", options.saver.kind, "process",
          ~InPlaceFlag(options.saver.kind),
          PagesToSave(options.ocr_only, pages), options.path)

\* a dry run that hands the script to djvused all the same
SaveDryRun_edits ==
    /\ pc = "save"
    /\ options.saver.kind = "dry_run"
    /\ log' = Append(log, SaveCall)
                 \o Tail(InPlaceLog("process", SaveCall.pages, options.path))
    /\ pc' = UnwindProcess
    /\ fs' = InPlaceFs(fs, options.path, SedOnDisk(sed))
    /\ touched' = touched \cup {Outside(options.path)}
    /\ UNCHANGED <<inputVars, proc, handles, events, options, exit_code,
                   failure, tmp, sed, k, pages, outcomes, engine>>

\* DryRunSaver.save: pass
SaveDryRun ==
    /\ pc = "save"
    /\ options.saver.kind = "dry_run"
    /\ log' = Append(log, SaveCall)
    /\ pc' = UnwindProcess
    /\ UNCHANGED <<inputVars, procVars, options, exit_code, failure, tmp, sed, k, pages,
                   outcomes, fs, engine>>

\* ScriptSaver.save: shutil.copyfile(sed_file.name, self._save_path)
SaveScript ==
    /\ pc = "save"
    /\ options.saver.kind = "script"
    /\ log' = Append(log, SaveCall)
    /\ pc' = UnwindProcess
    /\ \E ok \in BOOLEAN :
          IF ok
          THEN /\ fs' = [fs EXCEPT ![options.saver.save_path] =
                             FileRec("script", NoPages, SedOnDisk(sed))]
               /\ failure' = failure
          ELSE /\ fs' \in {fs, [fs EXCEPT ![options.saver.save_path] =
                                   FileRec("partial", NoPages, <<>>)]}
               /\ failure' = "IOError"
    /\ touched' = IF fs' = fs THEN touched
                  ELSE touched \cup {Outside(options.saver.save_path)}
    /\ UNCHANGED <<inputVars, proc, handles, events, options, exit_code, tmp,
                   sed, k, pages, outcomes, engine>>

\* InPlaceSaver.save called by process on the path of the source
SaveInPlace ==
    /\ pc = "save"
    /\ options.saver.kind = "in_place"
    /\ log' = Append(log, SaveCall)
                 \o Tail(InPlaceLog("process", SaveCall.pages, options.path))
    /\ pc' = UnwindProcess
    /\ \E ok \in BOOLEAN :
          IF ok /\ IsDocument(fs[AbsPath(options.path)])
          THEN /\ fs' = InPlaceFs(fs, options.path, SedOnDisk(sed))
               /\ failure' = failure
               /\ touched' = touched \cup {Outside(options.path)}
          ELSE /\ fs' = fs
               /\ failure' = "CalledProcessError"
               /\ touched' = touched
    /\ UNCHANGED <<inputVars, proc, handles, events, options, exit_code, tmp,
                   sed, k, pages, outcomes, engine>>

\* the chained call in a finally clause: it runs whatever the write did
AfterWrite_finally(f) == "chain"

\* the chained call is the statement after the write: an exception of the
\* write leaves the saver before it
AfterWrite(f) == IF f = "none" THEN "chain" ELSE UnwindProcess

\* BundledSaver.save up to document.save: the file is opened 'wb' and the
\* document saved into it
SaveBundled ==
    /\ pc = "save"
    /\ options.saver.kind = "bundled"
    /\ log' = Append(log, SaveCall)
    /\ \E ok \in BOOLEAN :
          IF ok
          THEN /\ fs' = [fs EXCEPT ![options.saver.save_path] =
                             FileRec("bundled", SaveCall.pages, <<>>)]
               /\ failure' = failure
          ELSE /\ fs' = [fs EXCEPT ![options.saver.save_path] =
                             FileRec("partial", NoPages, <<>>)]
               /\ failure' = "Error"
    /\ pc' = "bundled_close"
    /\ handles' = handles \cup {"out"}
    /\ touched' = touched \cup {Outside(options.saver.save_path)}
    /\ UNCHANGED <<inputVars, proc, events, options, exit_code, tmp, sed, k,
                   pages, outcomes, engine>>

\* finally: file.close(), then the chained call unless document.save raised
BundledClose ==
    /\ pc = "bundled_close"
    /\ handles' = handles \ {"out"}
    /\ pc' = AfterWrite(failure)
    /\ UNCHANGED <<inputVars, proc, touched, events, options, exit_code,
                   failure, tmp, sed, k, pages, outcomes, fs, log, engine>>

\* IndirectSaver.save up to document.save(indirect=...)
SaveIndirect ==
    /\ pc = "save"
    /\ options.saver.kind = "indirect"
    /\ log' = Append(log, SaveCall)
    /\ \E ok \in BOOLEAN :
          IF ok
          THEN /\ fs' = [fs EXCEPT ![options.saver.save_path] =
                             FileRec("indirect", SaveCall.pages, <<>>)]
               /\ failure' = failure
          ELSE /\ fs' \in {fs, [fs EXCEPT ![options.saver.save_path] =
                                   FileRec("partial", NoPages, <<>>)]}
               /\ failure' = "Error"
    /\ pc' = AfterWrite(failure')
    /\ touched' = IF fs' = fs THEN touched
                  ELSE touched \cup {Outside(options.saver.save_path)}
    /\ UNCHANGED <<inputVars, proc, handles, events, options, exit_code, tmp,
                   sed, k, pages, outcomes, engine>>

\* InPlaceSaver().save(None, pages, self._save_path, sed_file), the last
\* statement of BundledSaver.save and of IndirectSaver.save
ChainedInPlace ==
    /\ pc = "chain"
    /\ LET target == ChainedPath(options.saver, options.path)
       IN  /\ log' = log \o InPlaceLog(options.saver.kind, SaveCall.pages, target)
           /\ \E ok \in BOOLEAN :
                 IF ok /\ IsDocument(fs[AbsPath(target)])
                 THEN /\ fs' = InPlaceFs(fs, target, SedOnDisk(sed))
                      /\ failure' = failure
                      /\ touched' = touched \cup {Outside(target)}
                 ELSE /\ fs' = fs
                      /\ failure' = IF failure = "none"
                                    THEN "CalledProcessError" ELSE failure
                      /\ touched' = touched
    /\ pc' = UnwindProcess
    /\ UNCHANGED <<inputVars, proc, handles, events, options, exit_code, tmp,
                   sed, k, pages, outcomes, engine>>

\* finally: sed_file.close(); outside debug mode the file is a
\* _TemporaryFileWrapper, which unlinks it
SedClose ==
    /\ pc = "sed_close"
    /\ sed' = [sed EXCEPT !.open = FALSE, !.exists = options.debug]
    /\ pc' = UnwindMain
    /\ touched' = touched \cup {TempFile("ocrodjvu.djvused")}
    /\ UNCHANGED <<inputVars, proc, handles, events, options, exit_code,
                   failure, tmp, k, pages, outcomes, fs, log, engine>>

\* finally: context.close(), and the report of the directory left behind;
\* an exception in flight, SystemExit(1) included, ends the program with 1
Close ==
    /\ pc = "close"
    /\ tmp' = IF options.debug
              THEN [exists |-> TRUE, reported |-> TRUE]
              ELSE [exists |-> FALSE, reported |-> FALSE]
    /\ sed' = [sed EXCEPT !.exists = @ /\ options.debug]
    /\ pc' = "exited"
    /\ exit_code' = IF failure = "none" THEN 0 ELSE 1
    /\ touched' = touched \cup {TempFile("")}
    /\ events' = IF options.debug
                 THEN events \cup {"stderr: intermediate files"} ELSE events
    /\ UNCHANGED <<inputVars, proc, handles, options, failure, k, pages,
                   outcomes, fs, log, engine>>

----------------------------------------------------------------------------
(* A run of the program *)

MaxRunFlags == 1    \* output flags on the command line of a run

GoodId(n) == <<"p">> \o Str(n)
BadId(n) == <<"p", " ">> \o Str(n)

\* the documents: 1..MaxDocPages pages, every file id good but at most one
\* (the first bad id ends the run)
Documents ==
    UNION {{[i \in 1..n |-> IF i = b THEN BadId(i) ELSE GoodId(i)] : b \in 0..n}
              : n \in 1..MaxDocPages}

\* the -p values of a run
RunPageArgs ==
    {[none |-> TRUE, s |-> <<>>]}
        \cup {[none |-> FALSE, s |-> s] : s \in
                {<<"1">>, <<"0">>, <<"4">>, <<"1", ",", "1">>,
                 <<"1", ",", "3">>, <<"3", ",", "1">>, <<"1", "-", "2">>,
                 <<"2", "-", "1">>, <<"1", "-", "2", ",", "1">>}}

Init ==
    /\ argv \in [flags : FlagLists(MaxRunFlags), pages : RunPageArgs,
                 args : {<<"doc.djvu">>}, ocr_only : BOOLEAN,
                 clear_text : BOOLEAN, debug : BOOLEAN]
    /\ doc \in Documents
    /\ pc = "parse_args"
    /\ options = NoOptions
    /\ exit_code = -1
    /\ failure = "none"
    /\ tmp = NoTmp
    /\ sed = NoSed
    /\ k = 0
    /\ pages = <<>>
    /\ outcomes = <<>>
    /\ fs = InitialFs
    /\ log = <<>>
    /\ engine = NoEngine
    /\ proc = NoProc
    /\ handles = {}
    /\ touched = {}
    /\ events = {}
    /\ arg = <<>>
    /\ ret = NoRet

Next ==
    \/ ParseArgs
    \/ ContextInit
    \/ MakeEngine
    \/ OpenDocument
    \/ ResolvePages
    \/ SedOpen
    \/ PageBegin
    \/ Render
    \/ Recognize
    \/ ExtractText
    \/ LeaveRecognize
    \/ PageOk
    \/ PageNotAvailable
    \/ PageFails
    \/ Flush
    \/ SaveDryRun
    \/ SaveScript
    \/ SaveInPlace
    \/ SaveBundled
    \/ BundledClose
    \/ SaveIndirect
    \/ ChainedInPlace
    \/ SedClose
    \/ Close

Spec == Init /\ [][Next]_vars

\* the statements of a run from the engine probe on
RunSteps ==
    \/ MakeEngine
    \/ OpenDocument
    \/ ResolvePages
    \/ SedOpen
    \/ PageBegin
    \/ Render
    \/ Recognize
    \/ ExtractText
    \/ LeaveRecognize
    \/ PageOk
    \/ PageNotAvailable
    \/ PageFails
    \/ Flush
    \/ SaveDryRun
    \/ SaveScript
    \/ SaveInPlace
    \/ SaveBundled
    \/ BundledClose
    \/ SaveIndirect
    \/ ChainedInPlace
    \/ SedClose
    \/ Close

\* once the workspace exists every statement returns: the program is one
\* thread, and the external processes it waits for end (section 5 accepts
\* that a hung one hangs the run)
FairSpec == Spec /\ WF_vars(RunSteps)

(* Command lines with every kind of option: output flags, --engine,       *)
(* --list-engines, --list-languages, -p values good and bad, and zero to   *)
(* two positional arguments                                                *)

MaxCliFlags == 2    \* options on such a command line

CliFlags ==
    Flags \cup [kind : {"engine"}, value : {"ocropus", "tesseract"}]
          \cup [kind : {"list_engines", "list_languages"}, value : {""}]

CliFlagLists == UNION {[1..m -> CliFlags] : m \in 0..MaxCliFlags}

CliPageArgs ==
    {[none |-> TRUE, s |-> <<>>]}
        \cup {[none |-> FALSE, s |-> s] : s \in
                {<<"2">>, <<"+", "1">>, <<"1", "-">>, <<"x">>}}

CliArgs == {<<>>, <<"doc.djvu">>, <<"doc.djvu", "more.djvu">>}

InitCli ==
    /\ argv \in [flags : CliFlagLists, pages : CliPageArgs, args : CliArgs,
                 ocr_only : {FALSE}, clear_text : {FALSE}, debug : BOOLEAN]
    /\ doc = <<GoodId(1), GoodId(2)>>
    /\ pc = "parse_args"
    /\ options = NoOptions
    /\ exit_code = -1
    /\ failure = "none"
    /\ tmp = NoTmp
    /\ sed = NoSed
    /\ k = 0
    /\ pages = <<>>
    /\ outcomes = <<>>
    /\ fs = InitialFs
    /\ log = <<>>
    /\ engine = NoEngine
    /\ proc = NoProc
    /\ handles = {}
    /\ touched = {}
    /\ events = {}
    /\ arg = <<>>
    /\ ret = NoRet

SpecCli == InitCli /\ [][Next]_vars

----------------------------------------------------------------------------
(* C1: for every valid -p value, parse_args succeeds and options.pages is  *)
(* the concatenation, left to right, of each comma-separated token's own   *)
(* expansion (a single number, or every number from start to end),         *)
(* duplicates and order kept.  Stated as the claim states it; the code     *)
(* does not satisfy it.                                                    *)

IsRangeToken(t) ==
    /\ Contains(t, "-")
    /\ AllDigits(SplitOnce(t, "-")[1])
    /\ AllDigits(SplitOnce(t, "-")[2])

ValidSpec(s) == \A i \in 1..Len(Split(s, ",")) :
    LET t == Split(s, ",")[i] IN AllDigits(t) \/ IsRangeToken(t)

ExpandToken(t) ==
    IF Contains(t, "-")
    THEN XRange(DigitsVal(SplitOnce(t, "-")[1]), DigitsVal(SplitOnce(t, "-")[2]))
    ELSE <<DigitsVal(t)>>

RECURSIVE ExpandTokens(_)
ExpandTokens(ts) ==
    IF Len(ts) = 0 THEN <<>> ELSE ExpandToken(Head(ts)) \o ExpandTokens(Tail(ts))

ExpectedPages(s) == ExpandTokens(Split(s, ","))

C1_PagesAsClaimed ==
    (pc # "parse_args" /\ ~argv.pages.none /\ ValidSpec(argv.pages.s))
        => /\ exit_code # ErrorExit
           /\ options.pages = SomePages(ExpectedPages(argv.pages.s))

----------------------------------------------------------------------------
(* C3: parse_args succeeds, with the saver of the flag given, only when    *)
(* exactly one output-strategy flag was given; with no flag, or with two   *)
(* or more (the same one repeated included), it ends in error() and no     *)
(* saver is selected.                                                      *)

C3_ExactlyOneSaver ==
    pc # "parse_args"
        => /\ exit_code # ErrorExit
                => /\ Len(argv.flags) = 1
                   /\ options.saver.kind = argv.flags[1].kind
                   /\ options.saver.kind \in SaverKinds
           /\ Len(argv.flags) # 1
                => /\ exit_code = ErrorExit
                   /\ pc = "exited"
                   /\ options.saver.kind \notin SaverKinds
           /\ Len(argv.flags) = 1 => pc = "init"

\* three flags, the first one repeated, were refused
C3_Witness ==
    /\ pc = "exited"
    /\ exit_code = ErrorExit
    /\ Len(argv.flags) = 3
    /\ argv.flags[3] = argv.flags[1]

----------------------------------------------------------------------------
(* C4: validate_file_id returns the identifier itself when it holds no     *)
(* path separator and no whitespace, and raises SecurityConcern when it    *)
(* holds one; it never returns another identifier.                         *)

PathSeparators == {"/", "\\"}

HasSeparatorOrSpace(id) ==
    \E i \in 1..Len(id) : id[i] \in PathSeparators \/ id[i] \in PyWhitespace

C4_ValidateFileId ==
    ret # NoRet
        => IF HasSeparatorOrSpace(arg)
           THEN ret.raised
           ELSE ~ret.raised /\ ret.id = arg

\* "p\0001" was refused
C4_Witness ==
    /\ ret # NoRet
    /\ arg = <<"p", "\\", "0", "0", "0", "1">>
    /\ ret.raised

----------------------------------------------------------------------------
(* What the script must hold, computed from the selection *)

\* the selection as the command line gives it, as 0-based page numbers
Selection ==
    IF options.pages.none THEN [i \in 1..Len(doc) |-> i - 1]
    ELSE [j \in 1..Len(options.pages.list) |-> options.pages.list[j] - 1]

BlockOf(n, outcome) ==
    <<Select(FileId(n)), SetTxt>>
        \o (CASE outcome = "ok" -> <<TextOf(n), EndBlock>>
              [] outcome = "na" -> <<EndBlock>>
              [] OTHER -> <<>>)

\* the blocks of the first m entries of the selection
RECURSIVE BlocksUpTo(_, _, _)
BlocksUpTo(sel, outs, m) ==
    IF m = 0 THEN <<>>
    ELSE BlocksUpTo(sel, outs, m - 1) \o BlockOf(sel[m], outs[m])

ExpectedHeader == IF options.clear_text THEN <<RemoveTxt>> ELSE <<>>

ExpectedScript ==
    ExpectedHeader
        \o BlocksUpTo(Selection, outcomes, Len(outcomes))
        \o (IF pc = "page_ocr"
            THEN <<Select(FileId(Selection[k + 1])), SetTxt>>
            ELSE <<>>)

ChainedEntries ==
    {i \in 1..Len(log) : log[i].by \in {"bundled", "indirect"}}

ProcessSaves ==
    {i \in 1..Len(log) : log[i].op = "save" /\ log[i].by = "process"}

SaveReturned ==
    /\ pc \in {"sed_close", "close", "exited"}
    /\ failure = "none"
    /\ ProcessSaves # {}

SourcePath == AbsPath(options.path)

----------------------------------------------------------------------------
(* C2, as the claim states it: whatever the chained InPlaceSaver.save of   *)
(* Bundled and Indirect is given, and whatever djvused is then run on, is  *)
(* never the path of the source document.                                  *)

C2_ChainedNeverSource ==
    \A i \in ChainedEntries : AbsPath(log[i].path) # SourcePath

(* C2, amended: the chained InPlaceSaver.save, and the djvused it runs,    *)
(* get the strategy's own save path, on which the strategy has just        *)
(* written its artifact; that is the path of the source document only when *)
(* the user gave the source document's own path as the output path.        *)

C2_ChainedTarget ==
    \A i \in ChainedEntries :
        /\ AbsPath(log[i].path) = AbsPath(argv.flags[1].value)
        /\ fs[AbsPath(log[i].path)].type = options.saver.kind
        /\ AbsPath(argv.flags[1].value) # AbsPath(argv.args[1])
              => AbsPath(log[i].path) # SourcePath

\* an Indirect save ran djvused on out.djvu
C2_Witness ==
    /\ options.saver.kind = "indirect"
    /\ \E i \in ChainedEntries :
          log[i].op = "djvused" /\ log[i].path = "/cwd/out.djvu"
    /\ fs["/cwd/doc.djvu"] = Original

----------------------------------------------------------------------------
(* C5: once an exception is in flight nothing more is written or saved,    *)
(* only the finally clauses run; and once the workspace exists the program *)
(* always ends with Context.close done: the directory removed without      *)
(* --debug, kept and reported with it.                                     *)

Closed ==
    /\ pc = "exited"
    /\ IF options.debug THEN tmp.exists /\ tmp.reported ELSE ~tmp.exists

C5_CleanupReached ==
    /\ [][failure # "none"
            => /\ pc' \in {"sed_close", "close", "exited"}
               /\ log' = log
               /\ fs' = fs
               /\ sed'.written = sed.written]_vars
    /\ (tmp.exists /\ pc # "exited") ~> Closed

\* a security concern, and the workspace removed all the same
C5_Witness ==
    /\ pc = "exited"
    /\ failure = "SecurityConcern"
    /\ ~options.debug
    /\ ~tmp.exists
    /\ exit_code = 1

----------------------------------------------------------------------------
(* C6: a page for which process_page raises NotAvailable gets a block of   *)
(* select, set-txt and the terminator with no text in it; the step that    *)
(* handles it raises nothing and goes on to the next page of the selection *)
(* (or to the flush after the last); a run whose only incidents are such   *)
(* pages reaches the save.                                                 *)

BlockLen(outcome) == Len(BlockOf(0, outcome))

RECURSIVE BlockStart(_)
BlockStart(i) ==
    IF i = 1 THEN Len(ExpectedHeader) + 1
    ELSE BlockStart(i - 1) + BlockLen(outcomes[i - 1])

NaBlocksEmpty ==
    \A i \in 1..Len(outcomes) :
        outcomes[i] = "na"
            => /\ Len(sed.written) >= BlockStart(i) + 2
               /\ SubSeq(sed.written, BlockStart(i), BlockStart(i) + 2)
                     = <<Select(FileId(pages[i])), SetTxt, EndBlock>>

NaRunReachesSave ==
    (pc = "exited" /\ exit_code = 0 /\ \E i \in 1..Len(outcomes) : outcomes[i] = "na")
        => ProcessSaves # {}

NaContinues ==
    (Len(outcomes') = Len(outcomes) + 1 /\ outcomes'[Len(outcomes')] = "na")
        => /\ failure' = "none"
           /\ k' = k + 1
           /\ pc' = IF k + 1 < Len(pages) THEN "page_begin" ELSE "flush"

C6_NotAvailableContinues ==
    /\ [](NaBlocksEmpty /\ NaRunReachesSave)
    /\ [][NaContinues]_vars

\* the first page was not available, the second was recognised, and the
\* save was reached
C6_Witness ==
    /\ Len(outcomes) >= 2
    /\ outcomes[1] = "na"
    /\ outcomes[2] = "ok"
    /\ ProcessSaves # {}

----------------------------------------------------------------------------
(* C7: while the script file is open it holds, after the optional          *)
(* remove-txt line, one complete block per entry of the selection already  *)
(* processed, in the order of the selection, duplicates kept, each made of *)
(* select <validated id>, set-txt, the text or nothing, and the            *)
(* terminator; while entry k+1 is being rendered and recognised the blocks *)
(* of entries 1..k are complete and only its select and set-txt follow;    *)
(* at the flush and at the save there is one block per entry.              *)

C7_ScriptBlocks ==
    sed.open
        => /\ pages = Selection
           /\ sed.written = ExpectedScript
           /\ \A i \in 1..Len(sed.written) :
                 sed.written[i].cmd = "select"
                     => ~HasSeparatorOrSpace(sed.written[i].id)
           /\ pc \in {"page_begin", "page_ocr"} => Len(outcomes) = k
           /\ pc \in {"flush", "save", "chain"}
                 => /\ Len(outcomes) = Len(Selection)
                    /\ \A i \in 1..Len(outcomes) : outcomes[i] \in {"ok", "na"}

\* the selection 3,1 at the save: the block of page 3, then that of page 1
C7_Witness ==
    /\ pc = "save"
    /\ ~options.pages.none
    /\ options.pages.list = <<3, 1>>
    /\ outcomes = <<"ok", "ok">>
    /\ sed.written = ExpectedHeader
                        \o <<Select(GoodId(3)), SetTxt, TextOf(2), EndBlock,
                             Select(GoodId(1)), SetTxt, TextOf(0), EndBlock>>

----------------------------------------------------------------------------
(* C8: with --clear-text the script begins with remove-txt and holds that  *)
(* line once, whatever the selection, the empty one included; without      *)
(* --clear-text it holds no remove-txt line.                               *)

RemoveTxtLines == {i \in 1..Len(sed.written) : sed.written[i] = RemoveTxt}

C8_RemoveTxtOnce ==
    sed.open
        => IF options.clear_text
           THEN RemoveTxtLines = {1}
           ELSE RemoveTxtLines = {}

\* an empty selection (-p 2-1): the script at the save is remove-txt alone
C8_Witness ==
    /\ pc = "save"
    /\ options.clear_text
    /\ pages = <<>>
    /\ sed.written = <<RemoveTxt>>

----------------------------------------------------------------------------
(* C9: with --ocr-only the saver is given the pages that were processed,   *)
(* and the artifact of Bundled and Indirect holds exactly those; without   *)
(* it the saver is given None and the artifact holds every page.           *)

PageSet(p) == {p.list[j] : j \in 1..Len(p.list)}

Processed == {Selection[j] : j \in 1..Len(outcomes)}

KeepsProcessed(p) ==
    IF options.ocr_only
    THEN ~p.none /\ PageSet(p) = Processed
    ELSE p.none

C9_PagesToSave ==
    /\ \A i \in 1..Len(log) : log[i].op = "save" => KeepsProcessed(log[i].pages)
    /\ \A p \in AbsPaths :
          fs[p].type \in {"bundled", "indirect"} => KeepsProcessed(fs[p].pages)

\* --ocr-only -p 1,3 -o out.djvu: the new file holds pages 1 and 3
\* (page.n = 0 and 2)
C9_Witness ==
    /\ options.ocr_only
    /\ ~options.pages.none
    /\ options.pages.list = <<1, 3>>
    /\ fs["/cwd/out.djvu"].type = "bundled"
    /\ PageSet(fs["/cwd/out.djvu"].pages) = {0, 2}

----------------------------------------------------------------------------
(* C10, as the claim states it: after ScriptSaver.save has returned, the   *)
(* file at the given path is the flushed script, which is the whole script *)
(* of the run, no djvused was run, and the source document is as it was.   *)

ScriptCopied ==
    /\ fs[options.saver.save_path] = FileRec("script", NoPages, SedOnDisk(sed))
    /\ SedOnDisk(sed) = sed.written
    /\ sed.written = ExpectedScript
    /\ Len(outcomes) = Len(Selection)
    /\ \A i \in 1..Len(log) : log[i].op # "djvused"

C10_ScriptAsClaimed ==
    (options.saver.kind = "script" /\ SaveReturned)
        => ScriptCopied /\ fs[SourcePath] = Original

(* C10, amended: the same, but the source document is as it was unless the *)
(* path given to --save-script is the source document's own path, in which *)
(* case the script is copied over it.                                      *)

C10_ScriptCopy ==
    (options.saver.kind = "script" /\ SaveReturned)
        => /\ ScriptCopied
           /\ options.saver.save_path # SourcePath => fs[SourcePath] = Original

\* a script of two blocks copied to out.djvu
C10_Witness ==
    /\ options.saver.kind = "script"
    /\ SaveReturned
    /\ options.saver.save_path = "/cwd/out.djvu"
    /\ Len(outcomes) = 2
    /\ fs["/cwd/out.djvu"].data = sed.written
    /\ fs["/cwd/doc.djvu"] = Original

----------------------------------------------------------------------------
(* C11: under the dry-run strategy the run creates, writes and deletes     *)
(* files inside its temporary workspace only: the source document and the  *)
(* output paths stay as they were, every path touched lies in the          *)
(* workspace, and djvused is never invoked.                                *)

InWorkspace(t) == t.dir = TmpDir

EditorRuns == {i \in 1..Len(log) : log[i].op = "djvused"}

C11_DryRunTouchesNothing ==
    options.saver.kind = "dry_run" =>
        /\ fs = InitialFs
        /\ \A t \in touched : InWorkspace(t)
        /\ EditorRuns = {}

\* a dry run over a page that was recognised, ended with status 0 after
\* the script was written to the workspace and save was called
C11_Witness ==
    /\ options.saver.kind = "dry_run"
    /\ pc = "exited"
    /\ exit_code = 0
    /\ \E i \in 1..Len(outcomes) : outcomes[i] = "ok"
    /\ ProcessSaves # {}
    /\ TempFile("ocrodjvu.djvused") \in touched
    /\ TempFile("NNNNNN.pbm") \in touched

----------------------------------------------------------------------------
(* C12: the exit statuses.  A configuration error is: a name after         *)
(* --engine that no engine has, met before any query option; or, on a      *)
(* command line without query options, not exactly one output flag, a -p   *)
(* value that int() cannot read, or not exactly one positional argument.   *)

OutputFlags(a) == {i \in 1..Len(a.flags) : a.flags[i].kind \in SaverKinds}

QueryOptions(a) ==
    {i \in 1..Len(a.flags) : a.flags[i].kind \in {"list_engines", "list_languages"}}

BadEngineNames(a) ==
    {i \in 1..Len(a.flags) :
        a.flags[i].kind = "engine" /\ a.flags[i].value # "ocropus"}

\* a part of a token that int() cannot read: no digit in it, or a
\* character that is no digit, sign or blank
Unreadable(part) ==
    \/ \A i \in 1..Len(part) : ~IsDigit(part[i])
    \/ \E i \in 1..Len(part) : ~IsDigit(part[i]) /\ part[i] \notin {"+", "-", " "}

MalformedSpec(s) ==
    \E i \in 1..Len(Split(s, ",")) :
        LET t == Split(s, ",")[i]
            parts == IF Contains(t, "-") THEN SplitOnce(t, "-") ELSE <<t>>
        IN  \E j \in 1..Len(parts) : Unreadable(parts[j])

ConfigError(a) ==
    \/ \E i \in BadEngineNames(a) : \A j \in QueryOptions(a) : i < j
    \/ /\ QueryOptions(a) = {}
       /\ \/ Cardinality(OutputFlags(a)) # 1
          \/ ~a.pages.none /\ MalformedSpec(a.pages.s)
          \/ Len(a.args) # 1

NothingProcessed ==
    /\ ~tmp.exists
    /\ touched = {}
    /\ engine = NoEngine
    /\ sed = NoSed
    /\ outcomes = <<>>
    /\ log = <<>>
    /\ fs = InitialFs

\* the statuses other than that of a configuration error: 1 when the
\* engine is not found during a run and when the language list is
\* unavailable, 0 after a listing
OtherStatuses ==
    /\ options # NoOptions /\ "caught: EngineNotFound" \in events => exit_code = 1
    /\ "caught: UnknownLanguageList" \in events => exit_code = 1
    /\ events \cap {"listed: engines", "listed: languages"} # {} => exit_code = 0

\* the claim as stated: status 1 on every configuration error
C12_ExitAsClaimed ==
    pc = "exited" =>
        /\ ConfigError(argv) => exit_code = 1 /\ NothingProcessed
        /\ OtherStatuses

\* C12, amended: a configuration error ends the program with the status
\* of optparse's error(), 2, before anything is processed; the other
\* statuses are as claimed
C12_ExitStatus ==
    pc = "exited" =>
        /\ ConfigError(argv) => exit_code = ErrorExit /\ NothingProcessed
        /\ OtherStatuses

\* two output flags and nothing else wrong: the program left with 2
C12_Witness ==
    /\ pc = "exited"
    /\ Cardinality(OutputFlags(argv)) = 2
    /\ QueryOptions(argv) = {}
    /\ BadEngineNames(argv) = {}
    /\ argv.pages.none
    /\ Len(argv.args) = 1
    /\ exit_code = ErrorExit
    /\ NothingProcessed

----------------------------------------------------------------------------
(* C13: an engine adapter is constructed, with its script name and         *)
(* capability flag set, only when the probe answered with the prefix       *)
(* 'Usage: '; an absent engine and an unexpected answer both raise         *)
(* EngineNotFound.  Stated as the claim states it; the code does not       *)
(* satisfy it.                                                             *)

C13_EngineAsClaimed ==
    engine.script_name # "None" => engine.found

----------------------------------------------------------------------------
(* C14: under --list-languages both probing failures, EngineNotFound and   *)
(* UnknownLanguageList, are printed to the error stream and end the        *)
(* program by sys.exit(1); no other exception is raised.  Stated as the    *)
(* claim states it; the code does not satisfy it.                          *)

C14_FailuresReported ==
    pc = "exited" /\ options = NoOptions =>
        /\ "caught: EngineNotFound" \in events =>
               /\ "stderr: EngineNotFound" \in events
               /\ failure = "SystemExit"
               /\ exit_code = 1
        /\ "caught: UnknownLanguageList" \in events =>
               /\ "stderr: UnknownLanguageList" \in events
               /\ failure = "SystemExit"
               /\ exit_code = 1

----------------------------------------------------------------------------
(* C15: recognize is scoped.  An OCR process is running and not waited     *)
(* for exactly while process_page is inside the with statement; whichever  *)
(* way the with statement is left, by return or by an exception of the     *)
(* caller's block such as a failing text extraction, the process has been  *)
(* waited for; and when the program has ended no started process is left.  *)

InsideWith == proc.stage \in {"recognizing", "extracted", "raising"}

C15_ProcessReaped ==
    /\ proc.unwaited = (IF InsideWith THEN 1 ELSE 0)
    /\ InsideWith => pc = "page_ocr"
    /\ pc = "exited" => proc.unwaited = 0

\* an exception left the with statement, and the process was waited for
C15_Witness ==
    /\ proc.stage = "failed"
    /\ proc.unwaited = 0
    /\ pc = "page_ocr"

----------------------------------------------------------------------------
(* C16: build, then mutate.  The chained in-place commit of Bundled and    *)
(* Indirect starts only after the new artifact was written completely      *)
(* and, for Bundled, its file closed; when writing the artifact fails the  *)
(* commit is never invoked and the original document is unchanged.         *)

\* document.save of Bundled or Indirect raised
WriteFailed ==
    /\ ProcessSaves # {}
    /\ options.saver.kind \in {"bundled", "indirect"}
    /\ failure = "Error"

\* the commit is about to start, or has started
CommitOrdered ==
    /\ pc = "chain" =>
           /\ failure = "none"
           /\ fs[options.saver.save_path].type = options.saver.kind
           /\ fs[options.saver.save_path].data = <<>>
    /\ pc = "chain" \/ ChainedEntries # {} => "out" \notin handles
    /\ ChainedEntries # {} => ProcessSaves # {} /\ ~WriteFailed

\* the claim as stated: a failed write leaves the original unchanged
C16_BuildAsClaimed ==
    /\ CommitOrdered
    /\ WriteFailed =>
           /\ ChainedEntries = {}
           /\ EditorRuns = {}
           /\ fs[SourcePath] = Original

\* C16, amended: a failed write leaves the original unchanged unless the
\* output path is the path of the source itself, which the write has
\* then already truncated
C16_BuildThenMutate ==
    /\ CommitOrdered
    /\ WriteFailed =>
           /\ ChainedEntries = {}
           /\ EditorRuns = {}
           /\ options.saver.save_path # SourcePath => fs[SourcePath] = Original

\* -o out.djvu: document.save raised, the file was closed, and the run
\* ended without a commit and with the original as it was
C16_Witness ==
    /\ WriteFailed
    /\ options.saver.kind = "bundled"
    /\ options.saver.save_path # SourcePath
    /\ pc = "exited"
    /\ fs[options.saver.save_path].type = "partial"
    /\ fs[SourcePath] = Original
    /\ ChainedEntries = {}

----------------------------------------------------------------------------
(* C17: process hands save the open document unless the saver works in     *)
(* place: the in-place saver is given None, every other saver the          *)
(* document; and every run of djvused belongs to an InPlaceSaver.save      *)
(* call that was given None, be it the call of process or the chained      *)
(* call of Bundled and Indirect.                                           *)

----------------------------------------------------------------------------
(* C18: a SecurityConcern is fatal.  No select line ever holds an id with  *)
(* a path separator or whitespace; once the concern is raised the script   *)
(* holds the blocks of the pages before the offending one and nothing      *)
(* more, no later page is processed, save is never called, and no          *)
(* document or output path is touched.                                     *)

SelectIds == {sed.written[i].id : i \in {j \in 1..Len(sed.written) :
                                            sed.written[j].cmd = "select"}}

C18_SecurityConcernFatal ==
    /\ \A id \in SelectIds : ~HasSeparatorOrSpace(id)
    /\ failure = "SecurityConcern" =>
           /\ pc \in {"sed_close", "close", "exited"}
           /\ k < Len(pages)
           /\ HasSeparatorOrSpace(FileId(pages[k + 1]))
           /\ Len(outcomes) = k
           /\ sed.written = ExpectedHeader \o BlocksUpTo(Selection, outcomes, k)
           /\ proc = NoProc
           /\ log = <<>>
           /\ fs = InitialFs
           /\ \A t \in touched : InWorkspace(t)

\* the second of three selected pages has a blank in its id: the first
\* was processed, the third never, and the run ended with status 1
C18_Witness ==
    /\ failure = "SecurityConcern"
    /\ pc = "exited"
    /\ exit_code = 1
    /\ k = 1
    /\ Len(pages) = 3
    /\ Len(outcomes) = 1

----------------------------------------------------------------------------
(* C19: page resolution.  The 1-based number i of the selection becomes    *)
(* the page with 0-based index i - 1; a number that names no page of the   *)
(* document (0, or above the page count) fails the run at resolution,      *)
(* before the script file is made and before any page is processed, and    *)
(* is never mapped to another page.                                        *)

OutOfRange ==
    /\ ~options.pages.none
    /\ \E j \in 1..Len(options.pages.list) :
           options.pages.list[j] \notin 1..Len(doc)

C19_PageResolution ==
    /\ OutOfRange =>
           /\ pc \in {"init", "engine", "open_doc", "resolve", "close", "exited"}
           /\ pages = <<>>
           /\ sed = NoSed
           /\ TempFile("ocrodjvu.djvused") \notin touched
           /\ outcomes = <<>>
           /\ log = <<>>
           /\ pc \in {"close", "exited"} =>
                  failure \in {"OSError", "SystemExit", "IndexError"}
    /\ ~options.pages.none /\ pc \notin {"parse_args", "init", "engine",
                                           "open_doc", "resolve"}
                          /\ failure \notin {"OSError", "SystemExit", "IndexError"} =>
           /\ Len(pages) = Len(options.pages.list)
           /\ \A j \in 1..Len(pages) :
                  /\ options.pages.list[j] \in 1..Len(doc)
                  /\ pages[j] = options.pages.list[j] - 1

\* -p 0: the run failed at resolution with nothing made or processed
C19_Witness ==
    /\ ~options.pages.none
    /\ options.pages.list = <<0>>
    /\ failure = "IndexError"
    /\ pc = "exited"
    /\ exit_code = 1
    /\ engine # NoEngine
    /\ sed = NoSed

----------------------------------------------------------------------------
(* C20: one forward pass.  save is called at most once, only after the     *)
(* block of every selected page was written and the script flushed, and    *)
(* only while the script file is open; the file is closed, and outside     *)
(* debug mode deleted, only once save has returned or raised or the run    *)
(* has failed; a fatal failure while the pages are processed means save    *)
(* is never called; and the program never goes back to an earlier step.    *)

Rank(p) ==
    CASE p = "parse_args" -> 0
      [] p = "init" -> 1
      [] p = "engine" -> 2
      [] p = "open_doc" -> 3
      [] p = "resolve" -> 4
      [] p = "sed_open" -> 5
      [] p \in {"page_begin", "page_ocr"} -> 6
      [] p = "flush" -> 7
      [] p = "save" -> 8
      [] p = "bundled_close" -> 9
      [] p = "chain" -> 10
      [] p = "sed_close" -> 11
      [] p = "close" -> 12
      [] OTHER -> 13

SaveAfterAllPages ==
    /\ Cardinality(ProcessSaves) <= 1
    /\ ProcessSaves # {} \/ pc = "save" =>
           /\ k = Len(pages)
           /\ Len(outcomes) = Len(pages)
           /\ \A i \in 1..Len(outcomes) : outcomes[i] \in {"ok", "na"}
           /\ sed.written = ExpectedHeader
                                \o BlocksUpTo(Selection, outcomes, Len(pages))
           /\ sed.flushed = Len(sed.written)
           /\ proc = NoProc
    /\ pc \in {"save", "bundled_close", "chain"} => sed.open /\ sed.exists
    /\ (failure = "SecurityConcern" \/ \E i \in 1..Len(outcomes) : outcomes[i] = "error")
           => ProcessSaves = {}

ForwardPass ==
    /\ Rank(pc') >= Rank(pc)
    /\ k' >= k
    /\ Len(log') > Len(log) => sed.open /\ sed.exists /\ sed'.open /\ sed'.exists
    /\ sed.open /\ ~sed'.open => ProcessSaves # {} \/ failure # "none"
    /\ sed.exists /\ ~sed'.exists => ~sed.open \/ ~sed'.open

C20_SingleForwardPass ==
    /\ []SaveAfterAllPages
    /\ [][ForwardPass]_vars

\* three pages processed, then the one save, then the script file closed
\* and deleted
C20_Witness ==
    /\ Cardinality(ProcessSaves) = 1
    /\ Len(pages) = 3
    /\ Len(outcomes) = 3
    /\ pc = "exited"
    /\ exit_code = 0
    /\ ~sed.open
    /\ ~sed.exists

====
